---- MODULE Spec2Model ----
(***************************************************************************)
(* A model of pcap-viewer: the capture parser (core/pcap/parser.rs), the   *)
(* pagination state (core/viewer/pagination.rs), the terminal manager      *)
(* (core/viewer/terminal.rs), the keyboard debounce (core/input/           *)
(* keyboard.rs) and the viewer with its driving loop, offset classifier    *)
(* and line renderer (cli/hex_viewer.rs, cli/mod.rs).                      *)
(*                                                                         *)
(* Three specifications share the variables:                               *)
(*   Spec        the PaginationState API applied in any order;             *)
(*   RenderSpec  PcapParser::new on a file, then every display line of the *)
(*               document rendered in order;                               *)
(*   ViewSpec    one run of run_cli: parse, HexViewer::new, the            *)
(*               interactive loop, the drop of the TerminalManager.        *)
(***************************************************************************)
EXTENDS Integers, Sequences, FiniteSets, TLC

VARIABLES
    pc,                       \* control position of the specification at hand
    pagination,               \* PaginationState {lines_per_page, display_start_line, total_lines}
    op,                       \* history: the last PaginationState method applied
    pre,                      \* history: the PaginationState before that method
    file_data,                \* the bytes of the file
    bytes_per_line,           \* CliArgs.bytes_per_line
    layout,                   \* history: how the file was laid out when it was written
    parser,                   \* PcapParser {file_header, packets} and the Result of new
    current_offset,           \* display_current_page: offset of the next line to render
    line_out,                 \* the line last printed: its offset, bytes, hex column, annotation, and the passes of the hex column's loop
    anno_lines,               \* history: the (record start, line offset) pairs of the record annotations printed
    last_display_start_line,  \* HexViewer.last_display_start_line
    terminal_manager,         \* TerminalManager {is_raw_mode}
    tty,                      \* the terminal itself: raw mode on, alternate screen on
    keyboard_handler,         \* KeyboardHandler {last_key_code: <<>> for None, <<code>> for Some(code)}
    drawn,                    \* history: the viewport of the last draw, and how it came about
    since_read,               \* history: the PaginationState methods that changed the state since event::read last returned
    resize,                   \* history: what update_terminal_size returned, if it was the last to act on the PaginationState
    ev,                       \* history: the event event::read returned, until the loop's next pass
    result                    \* what run_cli returned

pagVars  == <<pagination, op, pre>>
fileVars == <<file_data, bytes_per_line, layout, parser>>
lineVars == <<current_offset, line_out, anno_lines>>
viewState == <<last_display_start_line, terminal_manager, tty, keyboard_handler, drawn,
              since_read, result>>
viewVars == <<viewState, resize, ev>>
vars     == <<pc, pagVars, fileVars, lineVars, viewVars>>

(***************************************************************************)
(* Bounds of the model.                                                    *)
(***************************************************************************)
MaxLinesPerPage == 4
MaxTotalLines == 7

\* usize::MAX, the sentinel of last_display_start_line.  A line index never
\* reaches it (a line index is below the file's length), so the largest
\* integer at hand stands for it.
UsizeMax == 2147483647

None == [none |-> TRUE]

(***************************************************************************)
(* core/viewer/pagination.rs                                               *)
(***************************************************************************)
saturating_sub(a, b) == IF a >= b THEN a - b ELSE 0

div_ceil(a, b) == (a + b - 1) \div b

Min(a, b) == IF a <= b THEN a ELSE b

Max(a, b) == IF a >= b THEN a ELSE b

PaginationState_new(lines_per_page, total_lines) ==
    [lines_per_page |-> lines_per_page,
     display_start_line |-> 0,
     total_lines |-> total_lines]

\* The page number and the page count of the footer; both divide by
\* lines_per_page.
current_page(p) == (p.display_start_line \div p.lines_per_page) + 1

total_pages(p) == div_ceil(p.total_lines, p.lines_per_page)

scroll_up(p) ==
    IF p.display_start_line > 0
    THEN [p EXCEPT !.display_start_line = @ - 1]
    ELSE p

\* scroll_down without the test against the last start line.
scroll_down_unguarded(p) ==
    [p EXCEPT !.display_start_line = @ + 1]

scroll_down(p) ==
    LET max_start_line == saturating_sub(p.total_lines, p.lines_per_page)
    IN  IF p.display_start_line < max_start_line
        THEN [p EXCEPT !.display_start_line = @ + 1]
        ELSE p

page_up(p) ==
    [p EXCEPT !.display_start_line = saturating_sub(@, p.lines_per_page)]

\* page_down without the clamp to the last start line.
page_down_unclamped(p) ==
    [p EXCEPT !.display_start_line = @ + p.lines_per_page]

page_down(p) ==
    LET max_start_line == saturating_sub(p.total_lines, p.lines_per_page)
    IN  [p EXCEPT !.display_start_line = Min(@ + p.lines_per_page, max_start_line)]

go_to_first_page(p) == [p EXCEPT !.display_start_line = 0]

\* go_to_last_page that jumps to the line after the last.
go_to_last_page_past_end(p) ==
    [p EXCEPT !.display_start_line = p.total_lines]

\* go_to_last_page with a plain subtraction in place of the saturating one.
go_to_last_page_plain_sub(p) ==
    [p EXCEPT !.display_start_line = p.total_lines - p.lines_per_page]

go_to_last_page(p) ==
    [p EXCEPT !.display_start_line = saturating_sub(p.total_lines, p.lines_per_page)]

\* update_lines_per_page without the re-clamp of the start line.
update_lines_per_page_noclamp(p, lines_per_page) ==
    [p EXCEPT !.lines_per_page = lines_per_page]

update_lines_per_page(p, lines_per_page) ==
    LET max_start_line == saturating_sub(p.total_lines, lines_per_page)
    IN  [p EXCEPT !.lines_per_page = lines_per_page,
                  !.display_start_line = Min(@, max_start_line)]

(***************************************************************************)
(* The page size: TerminalManager::calculate_display_lines and the         *)
(* viewer's update_terminal_size.                                          *)
(***************************************************************************)
MaxHeight == 9

\* The heights terminal::size() may report, at any call.
TermHeights == 6..MaxHeight

calculate_display_lines(height, reserved_lines) == saturating_sub(height, reserved_lines)

\* update_terminal_size that reports a change on every call.
update_terminal_size_always_changed(p, height) ==
    [size_changed |-> TRUE,
     pagination |-> update_lines_per_page(p, calculate_display_lines(height, 6))]

\* update_terminal_size on a terminal `height` rows high: whether the page
\* size changed, and the PaginationState after it.
update_terminal_size(p, height) ==
    LET new_lines_per_page == calculate_display_lines(height, 6)
        size_changed == new_lines_per_page # p.lines_per_page
    IN  [size_changed |-> size_changed,
         pagination |-> IF size_changed
                        THEN update_lines_per_page(p, new_lines_per_page)
                        ELSE p]

\* One method of PaginationState applied to the state, with its history.
Apply(name, p) ==
    /\ pc = "api"
    /\ pagination' = p
    /\ op' = name
    /\ pre' = pagination
    /\ resize' = None
    /\ UNCHANGED <<pc, fileVars, lineVars, viewState, ev>>

(***************************************************************************)
(* Spec: the PaginationState API, any method in any order.                 *)
(***************************************************************************)
IdleFile == /\ file_data = <<>>
            /\ bytes_per_line = 16
            /\ layout = None
            /\ parser = None

IdleLine == /\ current_offset = 0
            /\ line_out = None
            /\ anno_lines = {}

IdleView == /\ last_display_start_line = UsizeMax
            /\ terminal_manager = [is_raw_mode |-> FALSE]
            /\ tty = [raw |-> FALSE, alt |-> FALSE]
            /\ keyboard_handler = [last_key_code |-> <<>>]
            /\ drawn = None
            /\ since_read = <<>>
            /\ result = None
            /\ resize = None
            /\ ev = None

Init ==
    /\ pc = "api"
    /\ \E l \in 0..MaxLinesPerPage, t \in 0..MaxTotalLines :
          pagination = PaginationState_new(l, t)
    /\ op = "new"
    /\ pre = None
    /\ IdleFile /\ IdleLine /\ IdleView

ScrollUp == Apply("scroll_up", scroll_up(pagination))

ScrollDown == Apply("scroll_down", scroll_down(pagination))

PageUp == Apply("page_up", page_up(pagination))

PageDown == Apply("page_down", page_down(pagination))

GoToFirstPage == Apply("go_to_first_page", go_to_first_page(pagination))

GoToLastPage == Apply("go_to_last_page", go_to_last_page(pagination))

UpdateLinesPerPage ==
    \E n \in 0..MaxLinesPerPage :
        Apply("update_lines_per_page", update_lines_per_page(pagination, n))

\* The viewer's resize: update_terminal_size on a terminal `height` rows high.
UpdateTerminalSize ==
    \E height \in TermHeights :
        LET u == update_terminal_size(pagination, height)
        IN  /\ pc = "api"
            /\ pagination' = u.pagination
            /\ op' = "update_terminal_size"
            /\ pre' = pagination
            /\ resize' = [new_lines_per_page |-> calculate_display_lines(height, 6),
                          size_changed |-> u.size_changed]
            /\ UNCHANGED <<pc, fileVars, lineVars, viewState, ev>>

Next ==
    \/ ScrollUp
    \/ ScrollDown
    \/ PageUp
    \/ PageDown
    \/ GoToFirstPage
    \/ GoToLastPage
    \/ UpdateLinesPerPage
    \/ UpdateTerminalSize

Spec == Init /\ [][Next]_vars

(***************************************************************************)
(* The files the model reads.  A file is a 16-byte header image (or fewer  *)
(* than 16 bytes), then complete records, then a tail: nothing, fewer than *)
(* 16 stray bytes, or a record header that declares more payload than the  *)
(* file still holds.  Every byte string has exactly one such reading, so   *)
(* the enumeration leaves out only byte values, not shapes.  layout keeps  *)
(* how the file was written: it is what a walk of the input by hand finds. *)
(***************************************************************************)
MaxRecords == 2
MaxPayload == 3
MaxTail == 2

le16(n) == <<n % 256, (n \div 256) % 256>>

le32(n) == le16(n % 65536) \o le16(n \div 65536)

\* Header images: magic (as its two 16-bit halves), version, timezone, accuracy.
HeaderImage(magic_lo, magic_hi, major, minor, tz, acc) ==
    le16(magic_lo) \o le16(magic_hi) \o le16(major) \o le16(minor) \o le32(tz) \o le32(acc)

ValidHeaderImages ==
    { HeaderImage(45729, 54467, 2, 4, 0, 0),         \* A1 B2 C3 D4 02 00 04 00 0...
      HeaderImage(45729, 54467, 2, 4, 3600, 1) }

InvalidHeaderImages ==
    { HeaderImage(0, 0, 2, 4, 0, 0),                 \* magic 00 00 00 00
      HeaderImage(45729, 54467, 2, 5, 0, 0),         \* version 2.5
      HeaderImage(54467, 45729, 1, 4, 0, 0) }        \* big-endian magic, version 1.4

PayloadByte(j) == 65 + (j % 26)

StrayByte(j) == 48 + (j % 10)

\* A record's image: its 16-byte header, declaring `declared` payload bytes,
\* and the `present` payload bytes the file holds of them.
RecordImage(declared, present) ==
    le32(1000 + declared) \o le32(5) \o le32(declared) \o le32(7)
        \o [j \in 1..present |-> PayloadByte(j)]

RECURSIVE RecordsImage(_)
RecordsImage(lens) ==
    IF lens = <<>> THEN <<>>
    ELSE RecordImage(Head(lens), Head(lens)) \o RecordsImage(Tail(lens))

\* Payload lengths: none, one byte, the longest.
PayloadChoices == {0, 1, MaxPayload}

LenSeqs == UNION { [1..n -> PayloadChoices] : n \in 0..MaxRecords }

Tails ==
    {[kind |-> "none", present |-> 0, declared |-> 0]}
    \cup { [kind |-> "stray", present |-> n, declared |-> 0] :
              n \in {1, Min(MaxTail, 15)} }
    \cup { [kind |-> "truncated", present |-> n, declared |-> n + 1] :
              n \in {0, MaxTail} }
    \cup { [kind |-> "truncated", present |-> 0, declared |-> 1000] }

TailImage(tail) ==
    CASE tail.kind = "none" -> <<>>
      [] tail.kind = "stray" -> [j \in 1..tail.present |-> StrayByte(j)]
      [] tail.kind = "truncated" -> RecordImage(tail.declared, tail.present)

\* The records as written: the start of each is where the images before it end.
WrittenRecords(lens) ==
    [k \in 1..Len(lens) |->
        [start |-> 16 + Len(RecordsImage(SubSeq(lens, 1, k - 1))),
         payload_length |-> lens[k]]]

MakeFile(header, lens, tail) ==
    [bytes  |-> header \o RecordsImage(lens) \o TailImage(tail),
     layout |-> [header_valid |-> header \in ValidHeaderImages,
                 records |-> WrittenRecords(lens),
                 tail |-> tail,
                 tail_start |-> 16 + Len(RecordsImage(lens))]]

ShortFiles ==
    { [bytes  |-> SubSeq(HeaderImage(45729, 54467, 2, 4, 0, 0), 1, n),
       layout |-> [header_valid |-> FALSE, records |-> <<>>,
                   tail |-> [kind |-> "none", present |-> 0, declared |-> 0],
                   tail_start |-> n]] : n \in 0..15 }

\* Every shape of records and tail under one valid header; the other headers
\* with no record and with one.
Files ==
    { MakeFile(HeaderImage(45729, 54467, 2, 4, 0, 0), lens, tail) :
        lens \in LenSeqs, tail \in Tails }
    \cup { MakeFile(h, lens, [kind |-> "none", present |-> 0, declared |-> 0]) :
        h \in ValidHeaderImages \cup InvalidHeaderImages,
        lens \in { <<>>, <<MaxPayload>> } }
    \cup ShortFiles

BytesPerLineChoices == {3, 16, 20}

(***************************************************************************)
(* core/pcap/parser.rs                                                     *)
(***************************************************************************)
\* A u32 read from four little-endian bytes, kept as its two 16-bit halves
\* (0xD4C3B2A1 is above the integers at hand).
u32_from_le_bytes(b) == [lo |-> b[1] + 256 * b[2], hi |-> b[3] + 256 * b[4]]

u16_from_le_bytes(b) == b[1] + 256 * b[2]

\* `x as usize` of a u32 on a 64-bit target: the value itself.
as_usize(u) == u.hi * 65536 + u.lo

PCAP_MAGIC == [lo |-> 45729, hi |-> 54467]    \* 0xD4C3B2A1

Ok(v) == [ok |-> TRUE, value |-> v]

Err(e) == [ok |-> FALSE, error |-> e]

\* parse_file_header with the validation of magic and version left out.
parse_file_header_lenient(data) ==
    IF Len(data) < 16 THEN Err("Io")
    ELSE Ok([magic_number |-> u32_from_le_bytes(SubSeq(data, 1, 4)),
             major_version |-> u16_from_le_bytes(SubSeq(data, 5, 6)),
             minor_version |-> u16_from_le_bytes(SubSeq(data, 7, 8)),
             timezone_offset |-> u32_from_le_bytes(SubSeq(data, 9, 12)),
             timestamp_accuracy |-> u32_from_le_bytes(SubSeq(data, 13, 16))])

\* parse_file_header that takes a short read for a header of zeros.
parse_file_header_short_read(data) ==
    IF Len(data) < 16
    THEN Ok([magic_number |-> PCAP_MAGIC, major_version |-> 2, minor_version |-> 4,
             timezone_offset |-> u32_from_le_bytes(<<0, 0, 0, 0>>),
             timestamp_accuracy |-> u32_from_le_bytes(<<0, 0, 0, 0>>)])
    ELSE parse_file_header_lenient(data)

\* read_exact of 16 bytes fails on a shorter file; then the fields are read
\* and the magic and the version are validated.
parse_file_header(data) ==
    IF Len(data) < 16 THEN Err("Io")
    ELSE LET magic_number == u32_from_le_bytes(SubSeq(data, 1, 4))
             major_version == u16_from_le_bytes(SubSeq(data, 5, 6))
             minor_version == u16_from_le_bytes(SubSeq(data, 7, 8))
             timezone_offset == u32_from_le_bytes(SubSeq(data, 9, 12))
             timestamp_accuracy == u32_from_le_bytes(SubSeq(data, 13, 16))
         IN  IF magic_number # PCAP_MAGIC
             THEN Err("InvalidFormat")
             ELSE IF major_version # 2 \/ minor_version # 4
             THEN Err("InvalidFormat")
             ELSE Ok([magic_number |-> magic_number,
                      major_version |-> major_version,
                      minor_version |-> minor_version,
                      timezone_offset |-> timezone_offset,
                      timestamp_accuracy |-> timestamp_accuracy])

\* parse_packet_header reading packet_length from the bytes of the nanoseconds.
parse_packet_header_wrong_field(bytes) ==
    [timestamp_seconds |-> u32_from_le_bytes(SubSeq(bytes, 1, 4)),
     timestamp_nanoseconds |-> u32_from_le_bytes(SubSeq(bytes, 5, 8)),
     packet_length |-> u32_from_le_bytes(SubSeq(bytes, 5, 8)),
     checksum |-> u32_from_le_bytes(SubSeq(bytes, 13, 16))]

parse_packet_header(bytes) ==
    [timestamp_seconds |-> u32_from_le_bytes(SubSeq(bytes, 1, 4)),
     timestamp_nanoseconds |-> u32_from_le_bytes(SubSeq(bytes, 5, 8)),
     packet_length |-> u32_from_le_bytes(SubSeq(bytes, 9, 12)),
     checksum |-> u32_from_le_bytes(SubSeq(bytes, 13, 16))]

\* The loop of parse_packets over the bytes after the file header; offset
\* counts from 0 in that buffer, as in the code.
RECURSIVE parse_packets_loop(_, _, _)
RECURSIVE parse_packets_loop_nocheck(_, _, _)
parse_packets_loop_nocheck(buffer, offset, packets) ==
    IF ~(offset < Len(buffer)) THEN packets
    ELSE IF offset + 16 > Len(buffer) THEN packets
    ELSE LET header == parse_packet_header(SubSeq(buffer, offset + 1, offset + 16))
         IN  parse_packets_loop_nocheck(
                 buffer,
                 offset + 16 + as_usize(header.packet_length),
                 Append(packets, [header |-> header]))

parse_packets_loop(buffer, offset, packets) ==
    IF ~(offset < Len(buffer)) THEN packets
    ELSE IF offset + 16 > Len(buffer) THEN packets
    ELSE LET header == parse_packet_header(SubSeq(buffer, offset + 1, offset + 16))
             offset2 == offset + 16
         IN  IF offset2 + as_usize(header.packet_length) > Len(buffer)
             THEN packets
             ELSE parse_packets_loop(
                      buffer,
                      offset2 + as_usize(header.packet_length),
                      Append(packets, [header |-> header]))

\* parse_packets without the check that the payload is all there.
parse_packets_nocheck(buffer) == Ok(parse_packets_loop_nocheck(buffer, 0, <<>>))

parse_packets(buffer) == Ok(parse_packets_loop(buffer, 0, <<>>))

\* parse_file: the header from the first 16 bytes, the records from the rest;
\* either `?` returns the error.
parse_file(data) ==
    LET header == parse_file_header(data)
    IN  IF ~header.ok THEN header
        ELSE LET packets == parse_packets(SubSeq(data, 17, Len(data)))
             IN  IF ~packets.ok THEN packets
                 ELSE Ok([file_header |-> header.value, packets |-> packets.value])

PcapParser_new(data) == parse_file(data)

(***************************************************************************)
(* cli/hex_viewer.rs: the offset classifier                                *)
(***************************************************************************)
packets == parser.value.packets

RECURSIVE find_packet_loop(_, _, _)
find_packet_loop(offset, k, cursor) ==
    IF k > Len(packets) THEN None
    ELSE LET packet == packets[k]
             packet_start == cursor
             packet_size == 16 + as_usize(packet.header.packet_length)
         IN  IF offset >= packet_start /\ offset < packet_start + packet_size
             THEN [start |-> packet_start, packet |-> packet]
             ELSE find_packet_loop(offset, k + 1, cursor + packet_size)

\* The walk with the 16 bytes of the record header left out of packet_size.
RECURSIVE find_packet_loop_noheader(_, _, _)
find_packet_loop_noheader(offset, k, cursor) ==
    IF k > Len(packets) THEN None
    ELSE LET packet == packets[k]
             packet_start == cursor
             packet_size == as_usize(packet.header.packet_length)
         IN  IF offset >= packet_start /\ offset < packet_start + packet_size
             THEN [start |-> packet_start, packet |-> packet]
             ELSE find_packet_loop_noheader(offset, k + 1, cursor + packet_size)

find_packet_at_offset_noheader(offset) == find_packet_loop_noheader(offset, 1, 16)

\* The lookup that returns the first record for every offset.
find_packet_at_offset_first(offset) ==
    IF packets = <<>> THEN None ELSE [start |-> 16, packet |-> packets[1]]

find_packet_at_offset(offset) == find_packet_loop(offset, 1, 16)

\* The region of an offset as the renderer decides it: the file header below
\* 16, else the record find_packet_at_offset returns, its header being its
\* first 16 bytes and its payload the rest, else nothing.
Region(kind, start) == [kind |-> kind, start |-> start]

region_at(offset) ==
    IF offset < 16 THEN Region("FileHeader", 0)
    ELSE LET packet_info == find_packet_at_offset(offset)
         IN  IF packet_info # None
             THEN IF offset >= packet_info.start /\ offset < packet_info.start + 16
                  THEN Region("RecordHeader", packet_info.start)
                  ELSE Region("RecordPayload", packet_info.start)
             ELSE Region("Unclassified", 0)

(***************************************************************************)
(* cli/hex_viewer.rs: the line renderer.  A hex column is a sequence of    *)
(* cells: a byte with the colour it was printed in (magenta: file header,  *)
(* cyan: record header, yellow: record payload, plain: raw), or three      *)
(* blanks of padding.  An annotation is a text; the two structured texts   *)
(* keep the values they print.                                             *)
(***************************************************************************)
Cell(byte, tag) == [kind |-> "byte", byte |-> byte, tag |-> tag]

PadCell == [kind |-> "pad", byte |-> 0, tag |-> "none"]

Pads(n) == [j \in 1..n |-> PadCell]

\* The cells of data[i..i+n-1] (0-based, as in the code), all with one tag.
Cells(data, i, n, tag) == [j \in 1..n |-> Cell(data[i + j], tag)]

\* One pass of the loop of format_hex_line, as the loop's history keeps it:
\* whether find_packet_at_offset found a record, and the bytes the pass printed.
Pass(found, bytes) == [found |-> found, bytes |-> bytes]

\* The passes made since the last one that printed a byte.  A pass that
\* prints none leaves current_offset at the end of one of the records and
\* changes nothing else, so more such passes in a row than there are records
\* bring the loop back to a state it has been in.
IdlePasses(passes) ==
    LET printing == { k \in DOMAIN passes : passes[k].bytes # 0 }
    IN  Len(passes) - (IF printing = {} THEN 0
                       ELSE CHOOSE k \in printing : \A j \in printing : j <= k)

\* The loop of format_hex_line, with the history of its passes; `diverges`
\* says that the loop came back to a state it had been in, and so never ends.
RECURSIVE hex_loop(_, _, _, _, _, _)
hex_loop(data, i, cur, remaining_bytes, output, passes) ==
    IF IdlePasses(passes) > Len(packets)
    THEN [output |-> output, i |-> i, passes |-> passes, diverges |-> TRUE]
    ELSE IF ~(remaining_bytes > 0)
    THEN [output |-> output, i |-> i, passes |-> passes, diverges |-> FALSE]
    ELSE LET packet_info == find_packet_at_offset(cur)
         IN  IF packet_info # None
             THEN LET packet_start == packet_info.start
                      packet_length == as_usize(packet_info.packet.header.packet_length)
                      packet_header_end == packet_start + 16
                      packet_data_end == packet_header_end + packet_length
                  IN  IF cur >= packet_start /\ cur < packet_header_end
                      THEN LET header_offset == cur - packet_start
                               bytes_to_show == Min(16 - header_offset, remaining_bytes)
                           IN  hex_loop(data, i + bytes_to_show, cur + bytes_to_show,
                                        remaining_bytes - bytes_to_show,
                                        output \o Cells(data, i, bytes_to_show, "packet_header"),
                                        Append(passes, Pass(TRUE, bytes_to_show)))
                      ELSE IF cur >= packet_header_end /\ cur < packet_data_end
                      THEN LET data_offset == cur - packet_header_end
                               bytes_to_show == Min(packet_length - data_offset, remaining_bytes)
                           IN  hex_loop(data, i + bytes_to_show, cur + bytes_to_show,
                                        remaining_bytes - bytes_to_show,
                                        output \o Cells(data, i, bytes_to_show, "packet_data"),
                                        Append(passes, Pass(TRUE, bytes_to_show)))
                      ELSE hex_loop(data, i, packet_data_end, remaining_bytes, output,
                                    Append(passes, Pass(TRUE, 0)))
             ELSE \* no record here: the rest of the line is printed raw, i is not moved
                  [output |-> output \o Cells(data, i, remaining_bytes, "raw"), i |-> i,
                   passes |-> Append(passes, Pass(FALSE, remaining_bytes)),
                   diverges |-> FALSE]

format_hex_line(data, offset) ==
    IF offset < 16
    THEN LET shown == Min(Len(data), 16)
         IN  Cells(data, 0, shown, "file_header") \o Pads(saturating_sub(16, shown))
    ELSE LET r == hex_loop(data, 0, offset, Len(data), <<>>, <<>>)
         IN  r.output \o Pads(saturating_sub(bytes_per_line, r.i))

\* The history of the loop of format_hex_line for a line (none below 16,
\* where the function returns before the loop).
hex_line_loop(data, offset) ==
    IF offset < 16
    THEN [passes |-> <<>>, diverges |-> FALSE]
    ELSE LET r == hex_loop(data, 0, offset, Len(data), <<>>, <<>>)
         IN  [passes |-> r.passes, diverges |-> r.diverges]

Text(chars) == [kind |-> "text", chars |-> chars]

format_raw_data(data) ==
    Text([j \in 1..Len(data) |-> IF data[j] >= 32 /\ data[j] <= 126 THEN data[j] ELSE 46])

format_file_header_info(data, offset) ==
    IF Len(data) < 16 THEN format_raw_data(data)
    ELSE IF offset = 0
    THEN LET header_values ==
                 IF parser.value.file_header # None
                 THEN parser.value.file_header
                 ELSE parse_file_header_lenient(data).value
             is_magic_invalid == header_values.magic_number # PCAP_MAGIC
             is_version_invalid ==
                 ~(header_values.major_version = 2 /\ header_values.minor_version = 4)
         IN  [kind |-> "file_header",
              magic |-> header_values.magic_number,
              magic_red |-> is_magic_invalid,
              major |-> header_values.major_version,
              minor |-> header_values.minor_version,
              version_red |-> is_version_invalid,
              tz |-> header_values.timezone_offset,
              ts_acc |-> header_values.timestamp_accuracy]
    ELSE format_raw_data(data)

\* DateTime::from_timestamp refuses nanoseconds of two seconds or more.
format_packet_time(seconds, nanoseconds) ==
    [seconds |-> seconds, nanoseconds |-> nanoseconds,
     invalid_ts |-> ~(as_usize(nanoseconds) < 2000000000)]

format_packet_info(data, offset, packet_info) ==
    LET packet_start == packet_info.start
        header_end == packet_start + 16
        data_start == header_end
    IN  IF offset >= packet_start /\ offset < header_end
        THEN LET header_offset == offset - packet_start
             IN  IF Len(data) >= 16 /\ header_offset = 0
                 THEN [kind |-> "packet",
                       start |-> packet_start,
                       time |-> format_packet_time(
                                    packet_info.packet.header.timestamp_seconds,
                                    packet_info.packet.header.timestamp_nanoseconds),
                       len |-> packet_info.packet.header.packet_length,
                       crc |-> packet_info.packet.header.checksum]
                 ELSE format_raw_data(data)
        ELSE IF offset >= data_start
        THEN Text(<<>>)
        ELSE format_raw_data(data)

format_parsed_info(data, offset) ==
    IF offset < 16
    THEN format_file_header_info(data, offset)
    ELSE LET packet_info == find_packet_at_offset(offset)
         IN  IF packet_info # None
             THEN format_packet_info(data, offset, packet_info)
             ELSE format_raw_data(data)

(***************************************************************************)
(* RenderSpec: PcapParser::new on a file (cli/mod.rs), then the lines of   *)
(* the document printed one after the other by the loop of                 *)
(* display_current_page, on a terminal tall enough to hold them all.       *)
(***************************************************************************)
RenderInit ==
    /\ pc = "parse"
    /\ \E f \in Files : file_data = f.bytes /\ layout = f.layout
    /\ bytes_per_line \in BytesPerLineChoices
    /\ parser = None
    /\ pagination = PaginationState_new(0, 0)
    /\ op = "new"
    /\ pre = None
    /\ IdleLine /\ IdleView

\* run_cli: PcapParser::new, then HexViewer::new; an error ends the run.
ParseFile ==
    /\ pc = "parse"
    /\ parser' = PcapParser_new(file_data)
    /\ IF parser'.ok
       THEN LET total_lines == div_ceil(Len(file_data), bytes_per_line)
            IN  /\ pagination' = PaginationState_new(total_lines, total_lines)
                /\ current_offset' = 0
                /\ result' = result
                /\ pc' = "page"
       ELSE /\ result' = Err(parser'.error)
            /\ pc' = "failed"
            /\ UNCHANGED <<pagination, current_offset>>
    /\ UNCHANGED <<op, pre, file_data, bytes_per_line, layout, line_out, anno_lines,
                   last_display_start_line, terminal_manager, tty, keyboard_handler, drawn,
                   since_read, resize, ev>>

\* One pass of the loop of display_current_page: one line printed.
DisplayLine ==
    /\ pc = "page"
    /\ current_offset < Len(file_data)
    /\ (current_offset \div bytes_per_line) - pagination.display_start_line
           < pagination.lines_per_page
    /\ LET line_end == Min(current_offset + bytes_per_line, Len(file_data))
           line_data == SubSeq(file_data, current_offset + 1, line_end)
           hex == format_hex_line(line_data, current_offset)
           info == format_parsed_info(line_data, current_offset)
       IN  /\ line_out' = [offset |-> current_offset, data |-> line_data,
                           hex |-> hex, info |-> info,
                           loop |-> hex_line_loop(line_data, current_offset)]
           /\ anno_lines' = IF info.kind = "packet"
                            THEN anno_lines \cup {<<info.start, current_offset>>}
                            ELSE anno_lines
           /\ current_offset' = line_end
    /\ UNCHANGED <<pc, pagVars, fileVars, viewVars>>

\* The loop of display_current_page ends: the file or the page is used up.
EndPage ==
    /\ pc = "page"
    /\ \/ current_offset >= Len(file_data)
       \/ (current_offset \div bytes_per_line) - pagination.display_start_line
              >= pagination.lines_per_page
    /\ pc' = "shown"
    /\ UNCHANGED <<pagVars, fileVars, lineVars, viewVars>>

RenderNext ==
    \/ ParseFile
    \/ DisplayLine
    \/ EndPage

RenderSpec == RenderInit /\ [][RenderNext]_vars

(***************************************************************************)
(* core/viewer/terminal.rs, core/input/keyboard.rs and the viewer's own    *)
(* state (cli/hex_viewer.rs).                                              *)
(***************************************************************************)
\* needs_redraw of the loop.
needs_redraw(size_changed, p, last) == size_changed \/ p.display_start_line # last

\* current_page divides by lines_per_page: display_help panics when it is 0.
display_help_panics(p) == p.lines_per_page = 0

\* enter_raw_mode, by the call that fails (if any): the terminal and the
\* manager's flag after it, and whether it returned an error.
enter_raw_mode(tm, t, fails) ==
    IF tm.is_raw_mode THEN [tm |-> tm, tty |-> t, ok |-> TRUE]
    ELSE IF fails = "enable_raw_mode"
    THEN [tm |-> tm, tty |-> t, ok |-> FALSE]
    ELSE IF fails = "execute"
    THEN [tm |-> tm, tty |-> [t EXCEPT !.raw = TRUE], ok |-> FALSE]
    ELSE [tm |-> [tm EXCEPT !.is_raw_mode = TRUE],
          tty |-> [raw |-> TRUE, alt |-> TRUE], ok |-> TRUE]

\* exit_raw_mode, by the call that fails (if any).
exit_raw_mode(tm, t, fails) ==
    IF ~tm.is_raw_mode THEN [tm |-> tm, tty |-> t, ok |-> TRUE]
    ELSE IF fails = "execute"
    THEN [tm |-> tm, tty |-> t, ok |-> FALSE]
    ELSE IF fails = "disable_raw_mode"
    THEN [tm |-> tm, tty |-> [t EXCEPT !.alt = FALSE], ok |-> FALSE]
    ELSE [tm |-> [tm EXCEPT !.is_raw_mode = FALSE],
          tty |-> [raw |-> FALSE, alt |-> FALSE], ok |-> TRUE]

KeyCodes == {"Esc", "q", "Up", "Down", "Left", "Right", "Home", "End", "r", "x"}

\* should_process_key: a key is dropped when it repeats the last processed
\* key within the debounce time (`quick`).
should_process_key(kh, code, quick) ==
    IF kh.last_key_code = <<code>> /\ quick
    THEN [process |-> FALSE, kh |-> kh]
    ELSE [process |-> TRUE, kh |-> [kh EXCEPT !.last_key_code = <<code>>]]

\* The dispatch with Left and Right exchanged.
KeyMethod_left_right_swapped(code) ==
    CASE code = "Up" -> "scroll_up"
      [] code = "Down" -> "scroll_down"
      [] code = "Left" -> "page_down"
      [] code = "Right" -> "page_up"
      [] code = "Home" -> "go_to_first_page"
      [] code = "End" -> "go_to_last_page"
      [] OTHER -> "none"

\* The PaginationState method a key is dispatched to, if any.
KeyMethod(code) ==
    CASE code = "Up" -> "scroll_up"
      [] code = "Down" -> "scroll_down"
      [] code = "Left" -> "page_up"
      [] code = "Right" -> "page_down"
      [] code = "Home" -> "go_to_first_page"
      [] code = "End" -> "go_to_last_page"
      [] OTHER -> "none"

Method(name, p) ==
    CASE name = "scroll_up" -> scroll_up(p)
      [] name = "scroll_down" -> scroll_down(p)
      [] name = "page_up" -> page_up(p)
      [] name = "page_down" -> page_down(p)
      [] name = "go_to_first_page" -> go_to_first_page(p)
      [] name = "go_to_last_page" -> go_to_last_page(p)
      [] OTHER -> p

(***************************************************************************)
(* ViewSpec: one run of run_cli on an existing file.                       *)
(***************************************************************************)
\* The files of a run: the header alone or with one record, a header with a
\* bad magic, and a file too short for a header.
ViewFiles ==
    { MakeFile(h, lens, [kind |-> "none", present |-> 0, declared |-> 0]) :
        h \in { HeaderImage(45729, 54467, 2, 4, 0, 0), HeaderImage(0, 0, 2, 4, 0, 0) },
        lens \in { <<>>, <<MaxPayload>> } }
    \cup { f \in ShortFiles : Len(f.bytes) \in {0, 8, 15} }

ViewInit ==
    /\ pc = "run_cli"
    /\ \E f \in ViewFiles : file_data = f.bytes /\ layout = f.layout
    /\ bytes_per_line \in BytesPerLineChoices
    /\ parser = None
    /\ pagination = PaginationState_new(0, 0)
    /\ op = "new"
    /\ pre = None
    /\ IdleLine /\ IdleView

\* The run ends with an error (or a panic) while the viewer is alive: the
\* viewer and its TerminalManager are dropped on the way out.
Fail(e) ==
    /\ result' = Err(e)
    /\ pc' = "drop"

\* The page and the footer are printed for the state p: a panic when
\* lines_per_page is 0, an I/O error, or the draw.
Draw(p, io, how) ==
    IF display_help_panics(p) THEN Fail("panic") /\ UNCHANGED drawn
    ELSE IF io = "err" THEN Fail("Io") /\ UNCHANGED drawn
    ELSE /\ drawn' = [start |-> p.display_start_line,
                      lines_per_page |-> p.lines_per_page,
                      how |-> how,
                      repeat |-> /\ drawn # None
                                 /\ drawn.start = p.display_start_line
                                 /\ drawn.lines_per_page = p.lines_per_page,
                      forced |-> drawn # None /\ drawn.r_pressed,
                      after_initial |-> drawn # None /\ drawn.how = "initial",
                      r_pressed |-> FALSE]
         /\ UNCHANGED result

\* run_cli up to viewer.run(): PcapParser::new, then HexViewer::new.
RunCli ==
    /\ pc = "run_cli"
    /\ parser' = PcapParser_new(file_data)
    /\ IF parser'.ok
       THEN \E height \in TermHeights :
              /\ pagination' = PaginationState_new(
                                   calculate_display_lines(height, 6),
                                   div_ceil(Len(file_data), bytes_per_line))
              /\ last_display_start_line' = UsizeMax
              /\ pc' = "enter_raw_mode"
              /\ UNCHANGED result
       ELSE /\ result' = Err(parser'.error)
            /\ pc' = "exit"
            /\ UNCHANGED <<pagination, last_display_start_line>>
    /\ UNCHANGED <<op, pre, file_data, bytes_per_line, layout, lineVars, terminal_manager,
                   tty, keyboard_handler, drawn, since_read, resize, ev>>

\* interactive_mode: self.terminal_manager.enter_raw_mode()?
EnterRawMode ==
    /\ pc = "enter_raw_mode"
    /\ \E fails \in {"none", "enable_raw_mode", "execute"} :
          LET r == enter_raw_mode(terminal_manager, tty, fails)
          IN  /\ terminal_manager' = r.tm
              /\ tty' = r.tty
              /\ IF r.ok THEN pc' = "initial_display" /\ UNCHANGED result
                         ELSE Fail("Io")
    /\ UNCHANGED <<pagVars, fileVars, lineVars, last_display_start_line, keyboard_handler,
                   drawn, since_read, resize, ev>>

\* interactive_mode: the initial display before the loop.
InitialDisplay ==
    /\ pc = "initial_display"
    /\ \E height \in TermHeights, io \in {"ok", "err"} :
          LET u == update_terminal_size(pagination, height)
          IN  /\ pagination' = u.pagination
              /\ IF u.size_changed
                 THEN op' = "update_lines_per_page" /\ pre' = pagination
                 ELSE UNCHANGED <<op, pre>>
              /\ Draw(u.pagination, io, "initial")
              /\ IF ~display_help_panics(u.pagination) /\ io = "ok"
                 THEN pc' = "loop_top"
                 ELSE TRUE
    /\ UNCHANGED <<fileVars, lineVars, last_display_start_line, terminal_manager, tty,
                   keyboard_handler, since_read, resize, ev>>

\* The loop, from its top to the blocking read: the size is rechecked and the
\* page redrawn if needed.
LoopTop ==
    /\ pc = "loop_top"
    /\ \E height \in TermHeights, io \in {"ok", "err"} :
          LET u == update_terminal_size(pagination, height)
              redraw == needs_redraw(u.size_changed, u.pagination, last_display_start_line)
          IN  /\ pagination' = u.pagination
              /\ IF u.size_changed
                 THEN /\ op' = "update_lines_per_page" /\ pre' = pagination
                      /\ since_read' = Append(since_read, "update_lines_per_page")
                 ELSE UNCHANGED <<op, pre, since_read>>
              /\ IF redraw
                 THEN /\ Draw(u.pagination, io, "redraw")
                      /\ IF ~display_help_panics(u.pagination) /\ io = "ok"
                         THEN /\ last_display_start_line' = u.pagination.display_start_line
                              /\ pc' = "read_event"
                         ELSE UNCHANGED last_display_start_line
                 ELSE /\ pc' = "read_event"
                      /\ UNCHANGED <<drawn, result, last_display_start_line>>
    /\ ev' = None
    /\ UNCHANGED <<fileVars, lineVars, terminal_manager, tty, keyboard_handler, resize>>

\* The modifiers of a key event: none, or some (CONTROL, SHIFT, ALT).
KeyModifiers == {"NONE", "CONTROL"}

\* The event event::read returned, with the viewer's state when it returned.
Read(kind, code, modifiers, process) ==
    [kind |-> kind, code |-> code, modifiers |-> modifiers, process |-> process,
     height |-> 0,                  \* the terminal's height when 'r' rechecks it
     pagination |-> pagination,
     last_display_start_line |-> last_display_start_line,
     keyboard_handler |-> keyboard_handler,
     drawn |-> drawn]

\* event::read() returns a key event.
KeyEvent ==
    /\ pc = "read_event"
    /\ \E code \in KeyCodes, modifiers \in KeyModifiers, quick \in BOOLEAN,
          height \in TermHeights :
          LET k == should_process_key(keyboard_handler, code, quick)
              u == update_terminal_size(pagination, height)
          IN  /\ keyboard_handler' = k.kh
              /\ ev' = [Read("key", code, modifiers, k.process)
                            EXCEPT !.height = IF k.process /\ code = "r" THEN height ELSE 0]
              /\ IF ~k.process
                 THEN /\ pc' = "loop_top"
                      /\ since_read' = <<>>
                      /\ UNCHANGED <<pagVars, last_display_start_line, drawn, result>>
                 ELSE IF code \in {"Esc", "q"}
                 THEN /\ pc' = "drop"
                      /\ result' = Ok("unit")
                      /\ since_read' = <<>>
                      /\ UNCHANGED <<pagVars, last_display_start_line, drawn>>
                 ELSE IF KeyMethod(code) # "none"
                 THEN /\ pagination' = Method(KeyMethod(code), pagination)
                      /\ op' = KeyMethod(code)
                      /\ pre' = pagination
                      /\ since_read' = IF pagination' # pagination
                                       THEN <<KeyMethod(code)>> ELSE <<>>
                      /\ pc' = "loop_top"
                      /\ UNCHANGED <<last_display_start_line, drawn, result>>
                 ELSE IF code = "r"
                 THEN /\ pagination' = u.pagination
                      /\ IF u.size_changed
                         THEN /\ op' = "update_lines_per_page" /\ pre' = pagination
                              /\ since_read' = <<"update_lines_per_page">>
                         ELSE since_read' = <<>> /\ UNCHANGED <<op, pre>>
                      /\ last_display_start_line' = UsizeMax
                      /\ drawn' = [drawn EXCEPT !.r_pressed = TRUE]
                      /\ pc' = "loop_top"
                      /\ UNCHANGED result
                 ELSE /\ pc' = "loop_top"
                      /\ since_read' = <<>>
                      /\ UNCHANGED <<pagVars, last_display_start_line, drawn, result>>
    /\ UNCHANGED <<fileVars, lineVars, terminal_manager, tty, resize>>

\* A mouse event taken for a turn of the wheel that scrolls down.
MouseEvent_scrolls ==
    /\ pc = "read_event"
    /\ pc' = "loop_top"
    /\ pagination' = scroll_down(pagination)
    /\ since_read' = <<>>
    /\ ev' = Read("mouse", "none", "NONE", FALSE)
    /\ UNCHANGED <<op, pre, fileVars, lineVars, last_display_start_line, terminal_manager,
                   tty, keyboard_handler, drawn, result, resize>>

\* event::read() returns a mouse event: continue.
MouseEvent ==
    /\ pc = "read_event"
    /\ pc' = "loop_top"
    /\ since_read' = <<>>
    /\ ev' = Read("mouse", "none", "NONE", FALSE)
    /\ UNCHANGED <<pagVars, fileVars, lineVars, last_display_start_line, terminal_manager,
                   tty, keyboard_handler, drawn, result, resize>>

\* event::read() returns any other event (resize, focus, paste): continue.
OtherEvent ==
    /\ pc = "read_event"
    /\ pc' = "loop_top"
    /\ since_read' = <<>>
    /\ ev' = Read("other", "none", "NONE", FALSE)
    /\ UNCHANGED <<pagVars, fileVars, lineVars, last_display_start_line, terminal_manager,
                   tty, keyboard_handler, drawn, result, resize>>

\* event::read() returns an error.
ReadError ==
    /\ pc = "read_event"
    /\ Fail("Io")
    /\ since_read' = <<>>
    /\ UNCHANGED <<pagVars, fileVars, lineVars, last_display_start_line, terminal_manager,
                   tty, keyboard_handler, drawn, resize, ev>>

\* The viewer goes out of scope in run_cli: the TerminalManager is dropped,
\* and drop ignores what exit_raw_mode returns.
DropTerminalManager ==
    /\ pc = "drop"
    /\ \E fails \in {"none", "execute", "disable_raw_mode"} :
          LET r == exit_raw_mode(terminal_manager, tty, fails)
          IN  /\ terminal_manager' = r.tm
              /\ tty' = r.tty
    /\ pc' = "exit"
    /\ UNCHANGED <<pagVars, fileVars, lineVars, last_display_start_line, keyboard_handler,
                   drawn, since_read, result, resize, ev>>

ViewNext ==
    \/ RunCli
    \/ EnterRawMode
    \/ InitialDisplay
    \/ LoopTop
    \/ KeyEvent
    \/ MouseEvent
    \/ OtherEvent
    \/ ReadError
    \/ DropTerminalManager

ViewSpec == ViewInit /\ [][ViewNext]_vars

(***************************************************************************)
(* Claims about the pagination state.                                      *)
(***************************************************************************)
MaxStartLine(p) == Max(0, p.total_lines - p.lines_per_page)

Clamp(x, lo, hi) == IF x < lo THEN lo ELSE IF x > hi THEN hi ELSE x

\* C1: after new and after any sequence of scroll_up, scroll_down, page_up,
\* page_down, go_to_first_page, go_to_last_page and update_lines_per_page(n),
\* display_start_line <= max(0, total_lines - lines_per_page).
C1_StartLineWithinBound ==
    pagination.display_start_line <= MaxStartLine(pagination)

\* C1 witness: a resize has pulled a start line back that was above the new
\* maximum, and the state is at that maximum with a document longer than a page.
C1_Witness ==
    /\ op = "update_lines_per_page"
    /\ pre.display_start_line > MaxStartLine(pagination)
    /\ pagination.display_start_line = MaxStartLine(pagination)
    /\ pagination.display_start_line > 0

\* The step of each movement operation.
StepOf(name, p) ==
    CASE name = "scroll_up"   -> -1
      [] name = "scroll_down" -> 1
      [] name = "page_up"     -> -(p.lines_per_page)
      [] name = "page_down"   -> p.lines_per_page

Movements == {"scroll_up", "scroll_down", "page_up", "page_down"}

\* C10: each movement operation sets display_start_line to its previous value
\* moved by the operation's step (-1, +1, -lines_per_page, +lines_per_page)
\* and clamped to [0, max(0, total_lines - lines_per_page)]; lines_per_page
\* and total_lines are left unchanged.
C10_MovementIsClampedStep ==
    op \in Movements =>
        /\ pagination.display_start_line =
               Clamp(pre.display_start_line + StepOf(op, pre), 0, MaxStartLine(pre))
        /\ pagination.lines_per_page = pre.lines_per_page
        /\ pagination.total_lines = pre.total_lines

\* C10 witness: a page_down that was cut short by the upper clamp, landing on a
\* start line that is neither the old one nor the old one plus a page.
C10_Witness ==
    /\ op = "page_down"
    /\ pre.display_start_line + pre.lines_per_page > MaxStartLine(pre)
    /\ pagination.display_start_line > pre.display_start_line
    /\ pagination.display_start_line = MaxStartLine(pre)
    /\ pre.display_start_line > 0

\* C11: go_to_last_page sets display_start_line to total_lines -
\* lines_per_page, or to 0 when total_lines < lines_per_page, and leaves the
\* other fields alone; a scroll_down or a page_down that comes next leaves the
\* whole state as it is.
C11_LastPageThenDownIsNoOp ==
    /\ [](op = "go_to_last_page" =>
             /\ pagination.display_start_line =
                    (IF pre.total_lines < pre.lines_per_page
                     THEN 0 ELSE pre.total_lines - pre.lines_per_page)
             /\ pagination.lines_per_page = pre.lines_per_page
             /\ pagination.total_lines = pre.total_lines)
    /\ [][(op = "go_to_last_page" /\ op' \in {"scroll_down", "page_down"})
              => pagination' = pagination]_vars

\* C11 witness: go_to_last_page has moved the view forward to the last start
\* line of a document longer than a page.
C11_Witness ==
    /\ op = "go_to_last_page"
    /\ pagination.lines_per_page > 0
    /\ pre.display_start_line < pagination.display_start_line
    /\ pagination.display_start_line = pagination.total_lines - pagination.lines_per_page

\* C12: update_terminal_size, finding a page of new_lines_per_page lines,
\* leaves lines_per_page = new_lines_per_page and display_start_line =
\* min(old display_start_line, max(0, total_lines - new_lines_per_page)), and
\* returns true exactly when new_lines_per_page differs from the old
\* lines_per_page.
C12_ResizeReclampsAndReports ==
    resize # None =>
        /\ pagination.lines_per_page = resize.new_lines_per_page
        /\ pagination.display_start_line =
               Min(pre.display_start_line,
                   Max(0, pre.total_lines - resize.new_lines_per_page))
        /\ pagination.total_lines = pre.total_lines
        /\ resize.size_changed <=> (resize.new_lines_per_page # pre.lines_per_page)

\* C12 witness: a resize to a longer page has pulled the start line back to the
\* new maximum, which is above 0.
C12_Witness ==
    /\ resize # None
    /\ resize.size_changed
    /\ resize.new_lines_per_page > pre.lines_per_page
    /\ pagination.display_start_line < pre.display_start_line
    /\ pagination.display_start_line > 0

\* The operations that move towards the start, and towards the end.
Backward == {"scroll_up", "page_up", "go_to_first_page"}

Forward == {"scroll_down", "page_down", "go_to_last_page"}

\* C13: scroll_up, page_up and go_to_first_page applied at display_start_line
\* = 0, scroll_down, page_down and go_to_last_page applied at
\* display_start_line = max(0, total_lines - lines_per_page), and
\* update_lines_per_page(n) with n the current lines_per_page, leave the three
\* fields unchanged (so that the same operation is again a no-op).
C13_NoOpLeavesStateUnchanged ==
    /\ (op \in Backward /\ pre.display_start_line = 0) => pagination = pre
    /\ (op \in Forward /\ pre.display_start_line = MaxStartLine(pre)) => pagination = pre
    /\ (op = "update_lines_per_page" /\ pagination.lines_per_page = pre.lines_per_page)
           => pagination = pre

\* C13 witness: a scroll_down applied at the last start line of a document
\* longer than a page.
C13_Witness ==
    /\ op = "scroll_down"
    /\ pre.display_start_line = MaxStartLine(pre)
    /\ pre.display_start_line > 0
    /\ pagination = pre

\* C22: after go_to_last_page, with lines_per_page >= 1 and total_lines >= 1,
\* the footer's page number equals its page count: current_page() =
\* total_pages(), also when total_lines is not a multiple of lines_per_page.
C22_LastPageNumberIsPageCount ==
    (/\ op = "go_to_last_page"
     /\ pagination.lines_per_page >= 1
     /\ pagination.total_lines >= 1)
        => current_page(pagination) = total_pages(pagination)

\* C23: whenever lines_per_page >= 1 and total_lines >= 1, after any sequence
\* of pagination operations and resizes, 1 <= current_page() <= total_pages().
C23_PageNumberWithinPageCount ==
    (pagination.lines_per_page >= 1 /\ pagination.total_lines >= 1) =>
        /\ 1 <= current_page(pagination)
        /\ current_page(pagination) <= total_pages(pagination)

\* C23 witness: after a resize, the view is at the last start line of a
\* document of several pages whose length is no multiple of the page size,
\* and the page number is above 1.
C23_Witness ==
    /\ op = "update_terminal_size"
    /\ resize.size_changed
    /\ pagination.lines_per_page >= 2
    /\ pagination.total_lines % pagination.lines_per_page # 0
    /\ pagination.display_start_line = MaxStartLine(pagination)
    /\ current_page(pagination) > 1

(***************************************************************************)
(* Claims about the parser and the offset classifier (RenderSpec).         *)
(***************************************************************************)
Parsed == pc # "parse" /\ parser.ok

Range(f) == { f[k] : k \in DOMAIN f }

PayloadLengths == [k \in 1..Len(packets) |-> as_usize(packets[k].header.packet_length)]

WrittenLengths == [k \in 1..Len(layout.records) |-> layout.records[k].payload_length]

\* C2: for every buffer of at least 16 bytes parsing succeeds and returns a
\* file header whatever the magic and the version are, and record parsing
\* proceeds from offset 16 (the records written are the records returned).
C2_ParseSucceedsWithAnyMagic ==
    (pc # "parse" /\ Len(file_data) >= 16) =>
        /\ parser.ok
        /\ parser.value.file_header = parse_file_header_lenient(file_data).value
        /\ PayloadLengths = WrittenLengths

\* C3: record parsing never fails and never appends an incomplete record: it
\* stops without error when fewer than 16 bytes remain, stops without
\* appending when a header declares more payload than the file still holds,
\* and keeps every record appended before the stop.
C3_RecordParsingStopsCleanly ==
    (pc # "parse" /\ layout.header_valid) =>
        /\ parser.ok
        /\ Len(packets) = Len(layout.records)
        /\ \A k \in 1..Len(packets) :
              packets[k].header =
                  parse_packet_header(
                      SubSeq(file_data, layout.records[k].start + 1,
                             layout.records[k].start + 16))
        /\ PayloadLengths = WrittenLengths

\* C3 witness: two records were kept and the header after them, which declares
\* more payload than the bytes that follow it, was not appended.
C3_Witness ==
    /\ Parsed
    /\ layout.tail.kind = "truncated"
    /\ layout.tail.present > 0
    /\ Len(layout.records) = 2
    /\ Len(packets) = 2
    /\ Len(file_data) >= layout.tail_start + 16

\* The byte ranges of the records: re-derived from the parser's list by the
\* classifier's walk, and as the file was written.
DerivedRanges ==
    { [start |-> pi.start,
       end |-> pi.start + 16 + as_usize(pi.packet.header.packet_length)] :
          pi \in { find_packet_at_offset(o) : o \in 16..Len(file_data) } \ {None} }

ManualRanges ==
    { [start |-> r.start, end |-> r.start + 16 + r.payload_length] :
          r \in Range(layout.records) }

RECURSIVE SumSizes(_)
SumSizes(lens) == IF lens = <<>> THEN 0 ELSE 16 + Head(lens) + SumSizes(Tail(lens))

\* C4: for every buffer with a valid header, the record byte ranges re-derived
\* from the parser's record list by a cursor walk (from 16, advancing by
\* 16 + payload_length) are exactly the ranges a manual walk of the input
\* yields, and 16 + the sum of (16 + payload_length) is at most the file length.
C4_RangesMatchManualWalk ==
    (pc # "parse" /\ layout.header_valid) =>
        /\ parser.ok
        /\ DerivedRanges = ManualRanges
        /\ \A r \in DerivedRanges : r.end <= Len(file_data)
        /\ 16 + SumSizes(PayloadLengths) <= Len(file_data)
        /\ 16 + SumSizes(PayloadLengths) = layout.tail_start

\* C4 witness: two records of different payload lengths, the second one not
\* empty, and bytes after them that belong to no record.
C4_Witness ==
    /\ Parsed
    /\ Cardinality(DerivedRanges) = 2
    /\ PayloadLengths[1] # PayloadLengths[2]
    /\ PayloadLengths[2] > 0
    /\ Len(file_data) > 16 + SumSizes(PayloadLengths)

\* The region each offset has by the way the file was written.
WrittenRegion(o) ==
    IF o < 16 THEN Region("FileHeader", 0)
    ELSE IF \E r \in Range(layout.records) : o >= r.start /\ o < r.start + 16
    THEN Region("RecordHeader",
                (CHOOSE r \in Range(layout.records) : o >= r.start /\ o < r.start + 16).start)
    ELSE IF \E r \in Range(layout.records) :
                o >= r.start + 16 /\ o < r.start + 16 + r.payload_length
    THEN Region("RecordPayload",
                (CHOOSE r \in Range(layout.records) :
                     o >= r.start + 16 /\ o < r.start + 16 + r.payload_length).start)
    ELSE Region("Unclassified", 0)

\* C5: every offset of the file gets exactly one region: FileHeader below 16,
\* the header or payload of the one record whose range holds it, Unclassified
\* at or beyond the end of the last decoded record (all bytes of a truncated
\* trailing record, offset 16 of a header-only file); the regions of distinct
\* records do not overlap and leave no gap between 16 and the end of the last.
C5_ClassifierPartitionsFile ==
    Parsed =>
        /\ \A o \in 0..Len(file_data) : region_at(o) = WrittenRegion(o)
        /\ LET ranges == DerivedRanges
           IN  \A o \in 0..Len(file_data) :
                  Cardinality({ r \in ranges : o >= r.start /\ o < r.end }) =
                      IF o >= 16 /\ o < layout.tail_start THEN 1 ELSE 0
        /\ \A o \in layout.tail_start..Len(file_data) :
              region_at(o).kind = "Unclassified"

\* C5 witness: a file with a record that has payload, followed by a truncated
\* record; offsets in the header, in the payload and in the truncated record
\* get their three different regions.
C5_Witness ==
    /\ Parsed
    /\ layout.tail.kind = "truncated"
    /\ layout.tail.present > 0
    /\ Len(packets) >= 1
    /\ region_at(layout.tail_start - 1).kind = "RecordPayload"
    /\ region_at(layout.tail_start).kind = "Unclassified"
    /\ region_at(Len(file_data) - 1).kind = "Unclassified"
    /\ region_at(16).kind = "RecordHeader"

(***************************************************************************)
(* Claims about the line renderer (RenderSpec).                            *)
(***************************************************************************)
LineOf(offset) == (offset \div bytes_per_line) * bytes_per_line

\* C8: for every decoded record the record-header annotation (TIME/LEN/CRC)
\* is rendered exactly once over the lines of the document: on the line whose
\* byte window contains the record's start offset, also when the record does
\* not start at the first byte of a line.
C8_AnnotationOncePerRecord ==
    pc = "shown" =>
        \A r \in DerivedRanges :
            { a[2] : a \in { b \in anno_lines : b[1] = r.start } } = {LineOf(r.start)}

TagOf(region) ==
    CASE region.kind = "FileHeader" -> "file_header"
      [] region.kind = "RecordHeader" -> "packet_header"
      [] region.kind = "RecordPayload" -> "packet_data"
      [] region.kind = "Unclassified" -> "raw"

\* C9: the hex column of a line at offset o holds exactly len(line_bytes) byte
\* cells in order, the cell of byte i tagged with the region that owns offset
\* o+i, followed by exactly bytes_per_line - len(line_bytes) padding cells.
C9_HexColumnCellPerByte ==
    line_out # None =>
        line_out.hex =
            [j \in 1..Len(line_out.data) |->
                Cell(line_out.data[j], TagOf(region_at(line_out.offset + j - 1)))]
            \o Pads(bytes_per_line - Len(line_out.data))

\* The header as the first 16 bytes of the file spell it.
DecodedHeader == parse_file_header_lenient(file_data).value

\* C18: for every file of at least 16 bytes and every bytes_per_line the file
\* is rendered, and its line at offset 0 carries the file-header annotation
\* with the decoded magic, version, timezone and accuracy, the magic flagged
\* exactly when it is not 0xD4C3B2A1 and the version exactly when it is not 2.4.
C18_HeaderLineAnnotated ==
    Len(file_data) >= 16 =>
        /\ pc # "failed"
        /\ (line_out # None /\ line_out.offset = 0) =>
               line_out.info =
                   [kind |-> "file_header",
                    magic |-> DecodedHeader.magic_number,
                    magic_red |-> DecodedHeader.magic_number # PCAP_MAGIC,
                    major |-> DecodedHeader.major_version,
                    minor |-> DecodedHeader.minor_version,
                    version_red |-> ~(DecodedHeader.major_version = 2
                                      /\ DecodedHeader.minor_version = 4),
                    tz |-> DecodedHeader.timezone_offset,
                    ts_acc |-> DecodedHeader.timestamp_accuracy]

\* The offsets at which a region begins: the file header, each record header,
\* each payload, and the bytes after the last record.
RegionStarts ==
    {0, layout.tail_start}
    \cup { r.start : r \in Range(layout.records) }
    \cup { r.start + 16 : r \in Range(layout.records) }

\* The offsets of the line last printed.
LineOffsets == line_out.offset .. (line_out.offset + Len(line_out.data) - 1)

\* C19: a line that holds no first byte of a region, all of it being the
\* continuation of the file header, of a record header or of a payload, has an
\* empty annotation; so has every line that begins in a record payload.
C19_ContinuationLinesBlank ==
    line_out # None =>
        /\ (/\ LineOffsets \cap RegionStarts = {}
            /\ WrittenRegion(line_out.offset).kind # "Unclassified")
               => line_out.info = Text(<<>>)
        /\ WrittenRegion(line_out.offset).kind = "RecordPayload"
               => line_out.info = Text(<<>>)

\* C21: for every line and every record list the parser produces, the loop of
\* format_hex_line ends: every pass that finds a record prints at least one
\* byte of the line (also for records with payload_length 0 and for lines
\* that span several records), a pass that finds none is the last, and so the
\* loop makes no more passes than the line has bytes.
C21_HexLoopTerminates ==
    line_out # None =>
        LET passes == line_out.loop.passes
        IN  /\ ~line_out.loop.diverges
            /\ \A k \in DOMAIN passes : passes[k].found => passes[k].bytes >= 1
            /\ \A k \in DOMAIN passes : ~passes[k].found => k = Len(passes)
            /\ Len(passes) <= Len(line_out.data)

\* C21 witness: a line whose loop made three passes or more, each finding a
\* record, and in which a record with payload_length 0 begins.
C21_Witness ==
    /\ line_out # None
    /\ Len(line_out.loop.passes) >= 3
    /\ \A k \in DOMAIN line_out.loop.passes : line_out.loop.passes[k].found
    /\ \E r \in Range(layout.records) : r.payload_length = 0 /\ r.start \in LineOffsets

(***************************************************************************)
(* Claims about a run of the viewer (ViewSpec).                            *)
(***************************************************************************)
\* C6: on every exit path of the viewer (quit key, an error returned from a
\* terminal or I/O call inside enter_raw_mode, the event loop or
\* exit_raw_mode, the drop of the TerminalManager) the terminal ends with raw
\* mode disabled and the alternate screen left.
C6_TerminalRestoredOnEveryExit ==
    pc = "exit" => ~tty.raw /\ ~tty.alt

\* C7: in the driving loop a redraw is suppressed whenever display_start_line
\* and lines_per_page are both unchanged since the last draw, the initial draw
\* before the loop counting as a draw; only the 'r' key forces a redraw.
C7_RedrawOnlyWhenViewportChanged ==
    (drawn # None /\ drawn.how = "redraw" /\ drawn.repeat) => drawn.forced
\* C14: a file of fewer than 16 bytes makes the parse fail with an error that
\* run_cli returns, and in a run whose parse failed the terminal is never put
\* in raw mode or on the alternate screen and nothing is drawn.
C14_ShortFileFailsBeforeRendering ==
    /\ (Len(file_data) < 16 /\ pc # "run_cli") =>
           /\ ~parser.ok
           /\ result = Err(parser.error)
    /\ (pc # "run_cli" /\ ~parser.ok) =>
           /\ pc = "exit"
           /\ ~tty.raw /\ ~tty.alt /\ ~terminal_manager.is_raw_mode
           /\ drawn = None

\* C14 witness: the run on a file of 1 to 15 bytes has ended with an error.
C14_Witness ==
    /\ pc = "exit"
    /\ Len(file_data) \in 1..15
    /\ ~result.ok

\* A key event was read and passed the debounce.
KeyProcessed == ev # None /\ ev.kind = "key" /\ ev.process

\* The keyboard surface: the state each navigation key leads to.
Dispatched(code, p) ==
    CASE code = "Up"    -> scroll_up(p)
      [] code = "Down"  -> scroll_down(p)
      [] code = "Left"  -> page_up(p)
      [] code = "Right" -> page_down(p)
      [] code = "Home"  -> go_to_first_page(p)
      [] code = "End"   -> go_to_last_page(p)

\* C15: a processed key event, whatever its modifiers, is dispatched by the
\* table: Up, Down, Left, Right, Home and End apply scroll_up, scroll_down,
\* page_up, page_down, go_to_first_page and go_to_last_page; 'r' rechecks the
\* terminal size and the next loop pass redraws even if nothing changed; Esc
\* and 'q' end the loop; any other key changes nothing.
C15_KeysDispatchedByTable ==
    /\ [](KeyProcessed =>
             CASE ev.code \in {"Esc", "q"} ->
                      /\ pc \in {"drop", "exit"}
                      /\ result = Ok("unit")
                      /\ pagination = ev.pagination
               [] ev.code \in {"Up", "Down", "Left", "Right", "Home", "End"} ->
                      /\ pc = "loop_top"
                      /\ pagination = Dispatched(ev.code, ev.pagination)
                      /\ last_display_start_line = ev.last_display_start_line
               [] ev.code = "r" ->
                      /\ pc = "loop_top"
                      /\ pagination.lines_per_page = Max(0, ev.height - 6)
                      /\ pagination.display_start_line =
                             Min(ev.pagination.display_start_line, MaxStartLine(pagination))
                      /\ pagination.total_lines = ev.pagination.total_lines
               [] OTHER ->
                      /\ pc = "loop_top"
                      /\ pagination = ev.pagination
                      /\ last_display_start_line = ev.last_display_start_line
                      /\ drawn = ev.drawn)
    /\ [][(KeyProcessed /\ ev.code = "r" /\ pc = "loop_top") =>
              \/ drawn'.how = "redraw" /\ drawn'.forced
              \/ pc' = "drop"]_vars

\* C15 witness: End pressed with a modifier has moved the view to the last
\* start line.
C15_Witness ==
    /\ KeyProcessed
    /\ ev.code = "End"
    /\ ev.modifiers = "CONTROL"
    /\ pagination.display_start_line > ev.pagination.display_start_line

\* C16: between two consecutive returns of event::read the loop applies at
\* most one transition to the PaginationState: one scroll, page or jump
\* operation, or one resize.
C16_OneTransitionBetweenReads ==
    pc = "read_event" => Len(since_read) <= 1

\* C17: a mouse event changes neither display_start_line (nor any other
\* field of the PaginationState) nor last_display_start_line, leaves the
\* debounce state as it was, draws nothing, does not end the loop, and leaves
\* no redraw pending for the next pass (display_start_line =
\* last_display_start_line).
C17_MouseEventIgnored ==
    (ev # None /\ ev.kind = "mouse") =>
        /\ pc = "loop_top"
        /\ result = None
        /\ pagination = ev.pagination
        /\ last_display_start_line = ev.last_display_start_line
        /\ keyboard_handler = ev.keyboard_handler
        /\ drawn = ev.drawn
        /\ pagination.display_start_line = last_display_start_line

\* C17 witness: a mouse event arrived after a key had been processed and the
\* view had been scrolled, with room left to scroll.
C17_Witness ==
    /\ ev # None /\ ev.kind = "mouse"
    /\ keyboard_handler.last_key_code # <<>>
    /\ pagination.display_start_line > 0
    /\ pagination.display_start_line < MaxStartLine(pagination)

\* C20: whenever the help footer is drawn lines_per_page >= 1, whatever the
\* height of the terminal: display_help never divides by zero in current_page
\* or total_pages, i.e. no run ends with that panic.
C20_FooterNeverDividesByZero ==
    result # Err("panic")

====
